---- MODULE Spec2Model ----
(***************************************************************************)
(* Model of the flat-array Merkle tree of src/merkle.go.                   *)
(*                                                                         *)
(* Strings and byte slices are sequences of tokens.  A token is either a   *)
(* single byte <<c>> or a digest token that stands for the fixed-width     *)
(* output of SHA-256 on a given byte string: <<"sha256", s>> is the raw    *)
(* 32-byte array and <<"hex", <<"sha256", s>>>> is its 64-character        *)
(* lowercase hexadecimal text.  The preimage is kept inside the token, so  *)
(* two digests are equal exactly when their inputs are equal: SHA-256 is   *)
(* taken as one collision-free function, shared by hashData and hashNodes. *)
(***************************************************************************)
EXTENDS Integers, Sequences, FiniteSets

VARIABLES data, pc, tree, call, ret

vars == <<data, pc, tree, call, ret>>

(* ---------------------------------------------------------------------- *)
(* Bounds                                                                  *)
(* ---------------------------------------------------------------------- *)
MaxLen == 4

(* ---------------------------------------------------------------------- *)
(* Bytes, digests and hexadecimal text                                     *)
(* ---------------------------------------------------------------------- *)
Size == 32

IntBits == 64

Chr(c) == <<c>>

Str(c) == <<Chr(c)>>

Sum256(bytes) == <<"sha256", bytes>>

EncodeToString(digest) == << <<"hex", digest>> >>

IsByte(tok) == Len(tok) = 1

IsHex(tok) == Len(tok) = 2 /\ tok[1] = "hex"

TokLen(tok) == IF IsByte(tok) THEN 1 ELSE IF IsHex(tok) THEN 2 * Size ELSE Size

RECURSIVE ByteLen(_)
ByteLen(s) == IF s = <<>> THEN 0 ELSE TokLen(Head(s)) + ByteLen(Tail(s))

DecodeHex(s) == [k \in 1..Len(s) |-> IF IsHex(s[k]) THEN s[k][2] ELSE s[k]]

hashData_NoStringCase(d) == EncodeToString(Sum256(<<>>))

hashData(d) == EncodeToString(Sum256(d))

hashNodes_Raw(left, right) == EncodeToString(Sum256(DecodeHex(left) \o DecodeHex(right)))

hashNodes(left, right) == EncodeToString(Sum256(left \o right))

(* ---------------------------------------------------------------------- *)
(* Go int arithmetic.  A 64-bit int is the set of its one-bit positions    *)
(* (two's complement); small values convert to and from Int.               *)
(* ---------------------------------------------------------------------- *)
GoRem(a, b) == IF a >= 0 THEN a % b ELSE -((-a) % b)

GoQuo(a, b) == IF a >= 0 THEN a \div b ELSE -((-a) \div b)

RECURSIVE Pow2(_)
Pow2(k) == IF k = 0 THEN 1 ELSE 2 * Pow2(k - 1)

RECURSIVE ToBitsFrom(_, _)
ToBitsFrom(n, b) ==
    IF n = 0 THEN {}
    ELSE (IF n % 2 = 1 THEN {b} ELSE {}) \cup ToBitsFrom(n \div 2, b + 1)

ToBits(n) == ToBitsFrom(n, 0)

RECURSIVE FromBits(_)
FromBits(bits) ==
    IF bits = {} THEN 0
    ELSE LET b == CHOOSE x \in bits : TRUE
         IN  Pow2(b) + FromBits(bits \ {b})

IsNonPositive(bits) == bits = {} \/ (IntBits - 1) \in bits

Shr(bits, k) ==
    {b - k : b \in {x \in bits : x >= k}}
        \cup (IF (IntBits - 1) \in bits THEN (IntBits - k)..(IntBits - 1) ELSE {})

Or(x, y) == x \cup y

Dec(bits) ==
    IF bits = {} THEN 0..(IntBits - 1)
    ELSE LET m == CHOOSE x \in bits : \A y \in bits : x <= y
         IN  (bits \ {m}) \cup 0..(m - 1)

Inc(bits) ==
    IF bits = 0..(IntBits - 1) THEN {}
    ELSE LET m == CHOOSE x \in 0..(IntBits - 1) :
                      x \notin bits /\ \A y \in 0..(x - 1) : y \in bits
         IN  (bits \ 0..(m - 1)) \cup {m}

nextPowerOfTwoBits(n) ==
    IF IsNonPositive(n) THEN {0}
    ELSE LET n0 == Dec(n)
             n1 == Or(n0, Shr(n0, 1))
             n2 == Or(n1, Shr(n1, 2))
             n3 == Or(n2, Shr(n2, 4))
             n4 == Or(n3, Shr(n3, 8))
             n5 == Or(n4, Shr(n4, 16))
         IN  Inc(n5)

nextPowerOfTwo(n) == FromBits(nextPowerOfTwoBits(ToBits(n)))

(* ---------------------------------------------------------------------- *)
(* The tree.  Go slices are 0-indexed: At(s, i) is s[i].                   *)
(* ---------------------------------------------------------------------- *)
At(s, i) == s[i + 1]

Put(s, i, v) == [s EXCEPT ![i + 1] = v]

Make(n) == [i \in 1..n |-> <<>>]

NoTree == [Nodes |-> <<>>, LeafData |-> <<>>, LeafOffset |-> 0, LeafCount |-> 0]

RECURSIVE hashLeaves_Rehash(_, _, _, _, _, _)
hashLeaves_Rehash(nodes, d, leafOffset, leafCount, paddedLeafCount, i) ==
    IF i >= paddedLeafCount THEN nodes
    ELSE hashLeaves_Rehash(
             IF i < leafCount
             THEN Put(nodes, leafOffset + i, hashData(At(d, i)))
             ELSE Put(nodes, leafOffset + i,
                      hashData(At(nodes, leafOffset + leafCount - 1))),
             d, leafOffset, leafCount, paddedLeafCount, i + 1)

RECURSIVE hashLeaves(_, _, _, _, _, _)
hashLeaves(nodes, d, leafOffset, leafCount, paddedLeafCount, i) ==
    IF i >= paddedLeafCount THEN nodes
    ELSE hashLeaves(
             IF i < leafCount
             THEN Put(nodes, leafOffset + i, hashData(At(d, i)))
             ELSE Put(nodes, leafOffset + i, At(nodes, leafOffset + leafCount - 1)),
             d, leafOffset, leafCount, paddedLeafCount, i + 1)

RECURSIVE buildUp_LeftOnly(_, _)
buildUp_LeftOnly(nodes, i) ==
    IF i < 0 THEN nodes
    ELSE LET left == 2 * i + 1
         IN  buildUp_LeftOnly(
                 Put(nodes, i, hashNodes(At(nodes, left), At(nodes, left))), i - 1)

RECURSIVE buildUp(_, _)
buildUp(nodes, i) ==
    IF i < 0 THEN nodes
    ELSE LET left == 2 * i + 1
             right == 2 * i + 2
         IN  buildUp(Put(nodes, i, hashNodes(At(nodes, left), At(nodes, right))), i - 1)

NewTreeOp_RejectsSingle(d) ==
    IF Len(d) <= 1 THEN [tree |-> NoTree, err |-> TRUE]
    ELSE LET leafCount == Len(d)
             paddedLeafCount == nextPowerOfTwo(leafCount)
             totalNodes == paddedLeafCount * 2 - 1
             leafOffset == paddedLeafCount - 1
             leaves == hashLeaves(Make(totalNodes), d, leafOffset, leafCount,
                                  paddedLeafCount, 0)
         IN  [tree |-> [Nodes |-> buildUp(leaves, leafOffset - 1),
                        LeafData |-> d,
                        LeafOffset |-> leafOffset,
                        LeafCount |-> leafCount],
              err |-> FALSE]

NewTreeOp(d) ==
    IF Len(d) = 0 THEN [tree |-> NoTree, err |-> TRUE]
    ELSE LET leafCount == Len(d)
             paddedLeafCount == nextPowerOfTwo(leafCount)
             totalNodes == paddedLeafCount * 2 - 1
             leafOffset == paddedLeafCount - 1
             leaves == hashLeaves(Make(totalNodes), d, leafOffset, leafCount,
                                  paddedLeafCount, 0)
         IN  [tree |-> [Nodes |-> buildUp(leaves, leafOffset - 1),
                        LeafData |-> d,
                        LeafOffset |-> leafOffset,
                        LeafCount |-> leafCount],
              err |-> FALSE]

GetRootOp(t) == IF Len(t.Nodes) = 0 THEN <<>> ELSE At(t.Nodes, 0)

RECURSIVE proofLoop_StopsEarly(_, _, _)
proofLoop_StopsEarly(t, currentIndex, proof) ==
    IF currentIndex > 2
    THEN LET siblingIndex == IF GoRem(currentIndex, 2) = 1
                             THEN currentIndex + 1
                             ELSE currentIndex - 1
         IN  proofLoop_StopsEarly(t, GoQuo(currentIndex - 1, 2),
                                  Append(proof, At(t.Nodes, siblingIndex)))
    ELSE proof

RECURSIVE proofLoop(_, _, _)
proofLoop(t, currentIndex, proof) ==
    IF currentIndex > 0
    THEN LET siblingIndex == IF GoRem(currentIndex, 2) = 1
                             THEN currentIndex + 1
                             ELSE currentIndex - 1
         IN  proofLoop(t, GoQuo(currentIndex - 1, 2),
                       Append(proof, At(t.Nodes, siblingIndex)))
    ELSE proof

GetProofOp_PaddedBound(t, index) ==
    IF index < 0 \/ index >= t.LeafOffset + 1
    THEN [proof |-> <<>>, isNil |-> TRUE, err |-> TRUE]
    ELSE LET proof == proofLoop(t, t.LeafOffset + index, <<>>)
         IN  [proof |-> proof, isNil |-> proof = <<>>, err |-> FALSE]

GetProofOp(t, index) ==
    IF index < 0 \/ index >= t.LeafCount
    THEN [proof |-> <<>>, isNil |-> TRUE, err |-> TRUE]
    ELSE LET proof == proofLoop(t, t.LeafOffset + index, <<>>)
         IN  [proof |-> proof, isNil |-> proof = <<>>, err |-> FALSE]

RECURSIVE verifyLoop_SwappedParity(_, _, _)
verifyLoop_SwappedParity(hash, proof, index) ==
    IF proof = <<>> THEN hash
    ELSE LET siblingHash == Head(proof)
         IN  verifyLoop_SwappedParity(IF GoRem(index, 2) = 0
                                      THEN hashNodes(siblingHash, hash)
                                      ELSE hashNodes(hash, siblingHash),
                                      Tail(proof), GoQuo(index, 2))

RECURSIVE verifyLoop_KeepsIndex(_, _, _)
verifyLoop_KeepsIndex(hash, proof, index) ==
    IF proof = <<>> THEN hash
    ELSE LET siblingHash == Head(proof)
         IN  verifyLoop_KeepsIndex(IF GoRem(index, 2) = 0
                                   THEN hashNodes(hash, siblingHash)
                                   ELSE hashNodes(siblingHash, hash),
                                   Tail(proof), index)

RECURSIVE verifyLoop(_, _, _)
verifyLoop(hash, proof, index) ==
    IF proof = <<>> THEN hash
    ELSE LET siblingHash == Head(proof)
         IN  verifyLoop(IF GoRem(index, 2) = 0
                        THEN hashNodes(hash, siblingHash)
                        ELSE hashNodes(siblingHash, hash),
                        Tail(proof), GoQuo(index, 2))

VerifyHash(d, proof, index) == verifyLoop(hashData(d), proof, index)

VerifyProofOp(d, proof, rootHash, index) == VerifyHash(d, proof, index) = rootHash

Slice(s, n) == [of |-> s, upto |-> n]

RECURSIVE printNode(_, _, _, _)
printNode(t, index, prefix, isTail) ==
    IF index >= Len(t.Nodes) THEN <<>>
    ELSE LET connector == IF ~isTail THEN "T-- " ELSE "L-- "
             line == [prefix |-> prefix, connector |-> connector,
                      text |-> Slice(At(t.Nodes, index), 8)]
             leftChild == 2 * index + 1
             rightChild == 2 * index + 2
             extension == IF ~isTail THEN "I   " ELSE "    "
         IN  <<line>>
             \o (IF rightChild < Len(t.Nodes)
                 THEN printNode(t, rightChild, Append(prefix, extension), FALSE)
                 ELSE <<>>)
             \o (IF leftChild < Len(t.Nodes)
                 THEN printNode(t, leftChild, Append(prefix, extension), TRUE)
                 ELSE <<>>)

PrintOp(t) ==
    IF Len(t.Nodes) = 0 THEN <<"Empty tree">>
    ELSE printNode(t, 0, <<>>, TRUE)

(* ---------------------------------------------------------------------- *)
(* Inputs                                                                  *)
(* ---------------------------------------------------------------------- *)
Items == {Str("a"), Str("b")}

Strings == Items \cup {Str("w"), hashData(Str("a")) \o hashData(Str("b"))}

RECURSIVE SeqsOfLen(_)
SeqsOfLen(n) ==
    IF n = 0 THEN {<<>>}
    ELSE {Append(s, x) : s \in SeqsOfLen(n - 1), x \in Items}

InputSeqs == UNION {SeqsOfLen(n) : n \in 0..MaxLen}

IndexRange(t) == (-(t.LeafOffset + 1))..(2 * (t.LeafOffset + 1) - 1)

Pool(t) == {Str("w"), <<>>, GetRootOp(t), At(t.Nodes, t.LeafOffset)}

NoCall ==
    [op |-> "none", item |-> <<>>, proof |-> <<>>, rootHash |-> <<>>,
     index |-> 0, base |-> 0, mut |-> "none"]

NoRet ==
    [ok |-> FALSE, hash |-> <<>>, proof |-> <<>>, isNil |-> FALSE,
     err |-> FALSE, root |-> <<>>, out |-> <<>>]

VerifyCalls(t) ==
    UNION {
        LET item == At(t.LeafData, i)
            proof == GetProofOp(t, i).proof
            root == GetRootOp(t)
            good == [op |-> "VerifyProof", item |-> item, proof |-> proof,
                     rootHash |-> root, index |-> i, base |-> i, mut |-> "none"]
        IN  {good}
            \cup {[good EXCEPT !.item = x, !.mut = "item"] : x \in Strings \ {item}}
            \cup UNION {{[good EXCEPT !.proof[p] = s, !.mut = "proof"] :
                            s \in Pool(t) \ {proof[p]}} : p \in 1..Len(proof)}
            \cup {[good EXCEPT !.rootHash = r, !.mut = "root"] : r \in Pool(t) \ {root}}
            \cup {[good EXCEPT !.index = j, !.mut = "index"] : j \in IndexRange(t) \ {i}}
            \cup {LET h == verifyLoop(hashData(item), SubSeq(proof, 1, l - 1), i)
                      up == GoQuo(i, Pow2(l - 1))
                  IN  [good EXCEPT
                          !.item = IF GoRem(up, 2) = 0 THEN h \o proof[l]
                                                       ELSE proof[l] \o h,
                          !.proof = SubSeq(proof, l + 1, Len(proof)),
                          !.index = GoQuo(i, Pow2(l)),
                          !.mut = "forge"] : l \in 1..Len(proof)}
        : i \in 0..(t.LeafCount - 1)}

(* ---------------------------------------------------------------------- *)
(* State machine                                                           *)
(* ---------------------------------------------------------------------- *)
Init ==
    /\ data \in InputSeqs
    /\ pc = "start"
    /\ tree = NoTree
    /\ call = NoCall
    /\ ret = NoRet

NewTree ==
    /\ pc = "start"
    /\ LET res == NewTreeOp(data)
       IN  /\ tree' = res.tree
           /\ pc' = IF res.err THEN "failed" ELSE "built"
           /\ ret' = [NoRet EXCEPT !.err = res.err, !.isNil = res.err]
    /\ call' = [NoCall EXCEPT !.op = "NewTree"]
    /\ UNCHANGED data

GetRoot ==
    /\ pc = "built"
    /\ call' = [NoCall EXCEPT !.op = "GetRoot"]
    /\ ret' = [NoRet EXCEPT !.root = GetRootOp(tree)]
    /\ UNCHANGED <<data, pc, tree>>

GetProof ==
    /\ pc = "built"
    /\ \E index \in IndexRange(tree) :
          /\ call' = [NoCall EXCEPT !.op = "GetProof", !.index = index]
          /\ LET res == GetProofOp(tree, index)
             IN  ret' = [NoRet EXCEPT !.proof = res.proof, !.isNil = res.isNil,
                                      !.err = res.err]
    /\ UNCHANGED <<data, pc, tree>>

VerifyProof ==
    /\ pc = "built"
    /\ \E c \in VerifyCalls(tree) :
          /\ call' = c
          /\ ret' = [NoRet EXCEPT
                        !.hash = VerifyHash(c.item, c.proof, c.index),
                        !.ok = VerifyProofOp(c.item, c.proof, c.rootHash, c.index)]
    /\ UNCHANGED <<data, pc, tree>>

PrintTree_TruncatesNodes ==
    /\ pc = "built"
    /\ call' = [NoCall EXCEPT !.op = "PrintTree"]
    /\ ret' = [NoRet EXCEPT !.out = PrintOp(tree)]
    /\ tree' = [tree EXCEPT !.Nodes = [k \in 1..Len(tree.Nodes) |-> <<>>]]
    /\ UNCHANGED <<data, pc>>

PrintTree ==
    /\ pc = "built"
    /\ call' = [NoCall EXCEPT !.op = "PrintTree"]
    /\ ret' = [NoRet EXCEPT !.out = PrintOp(tree)]
    /\ UNCHANGED <<data, pc, tree>>

Next == NewTree \/ GetRoot \/ GetProof \/ VerifyProof \/ PrintTree

Spec == Init /\ [][Next]_vars

(* ---------------------------------------------------------------------- *)
(* nextPowerOfTwo on its own: the argument is any 64-bit int near a power  *)
(* of two, zero or negative.                                               *)
(* ---------------------------------------------------------------------- *)
PowInputs ==
    {{}, {IntBits - 1}, 0..(IntBits - 1), {IntBits - 1, 0}}
        \cup UNION {{{k}, {k} \cup {0}, 0..(k - 1), ({k} \cup {k - 1}) \ {-1},
                     {k} \cup 0..(k - 1)} : k \in 0..(IntBits - 2)}

PowCall(n) == [op |-> "nextPowerOfTwo", n |-> n]

InitPow ==
    /\ data = <<>>
    /\ pc = "pow"
    /\ tree = NoTree
    /\ call \in {PowCall(n) : n \in PowInputs}
    /\ ret = [p |-> {}]

NextPowerOfTwo ==
    /\ pc = "pow"
    /\ pc' = "powdone"
    /\ ret' = [p |-> nextPowerOfTwoBits(call.n)]
    /\ UNCHANGED <<data, tree, call>>

NextPow == NextPowerOfTwo

SpecPow == InitPow /\ [][NextPow]_vars

(* ---------------------------------------------------------------------- *)
(* Vocabulary of the properties                                            *)
(* ---------------------------------------------------------------------- *)
RECURSIVE PowerAtLeast(_, _)
PowerAtLeast(p, n) == IF p >= n THEN p ELSE PowerAtLeast(2 * p, n)

SmallestPowerOfTwoGeq(n) == PowerAtLeast(1, n)

RECURSIVE Log2(_)
Log2(p) == IF p <= 1 THEN 0 ELSE 1 + Log2(p \div 2)

Extend(S, P) == [j \in 1..P |-> IF j <= Len(S) THEN S[j] ELSE S[Len(S)]]

Built == pc = "built"

ValidIndex(i) == i >= 0 /\ i < Len(data)

RECURSIVE Ancestor(_, _)
Ancestor(c, l) == IF l = 0 THEN c ELSE Ancestor((c - 1) \div 2, l - 1)

SiblingOf(c) == IF c % 2 = 1 THEN c + 1 ELSE c - 1

Abs(j) == IF j >= 0 THEN j ELSE -j

BitOf(j, l) == (Abs(j) \div Pow2(l)) % 2

Preimage(h) == h[1][2][2]

RawBytes(h) == <<h[1][2]>>

(* C1: round trip -- for every built tree and valid index i, verifying the  *)
(* item S[i] with GetProof(i) against GetRoot() at index i returns true.    *)
C1_RoundTrip ==
    /\ Built =>
          \A i \in 0..(Len(data) - 1) :
              VerifyProofOp(At(data, i), GetProofOp(tree, i).proof, GetRootOp(tree), i)
    /\ (/\ call.op = "VerifyProof"
        /\ ValidIndex(call.index)
        /\ call.item = At(data, call.index)
        /\ call.proof = GetProofOp(tree, call.index).proof
        /\ call.rootHash = GetRootOp(tree)) => ret.ok

C1_Witness ==
    /\ call.op = "VerifyProof"
    /\ call.mut = "none"
    /\ Len(data) = 3
    /\ data[2] = data[3]
    /\ call.index = 2
    /\ Len(call.proof) = 2
    /\ ret.ok

(* C2 as stated: with the right item, proof and root, every index j other   *)
(* than i makes VerifyProof return false.                                   *)
C2_AnyWrongIndexRejected ==
    (call.op = "VerifyProof" /\ call.mut = "index") => ~ret.ok

(* C2 amended: with the right item, proof (k entries) and root, an index j  *)
(* other than i is rejected exactly when at some level l < k bit l of |j|   *)
(* differs from bit l of i and the node on i's path at that level differs   *)
(* from its sibling.                                                        *)
C2_WrongIndex ==
    (call.op = "VerifyProof" /\ call.mut = "index") =>
        (~ret.ok <=>
            \E l \in 0..(Len(call.proof) - 1) :
                LET c == Ancestor(tree.LeafOffset + call.base, l)
                IN  /\ BitOf(call.index, l) # BitOf(call.base, l)
                    /\ At(tree.Nodes, c) # At(tree.Nodes, SiblingOf(c)))

C2_Witness ==
    /\ call.op = "VerifyProof"
    /\ call.mut = "index"
    /\ Len(data) = 4
    /\ data[1] # data[2]
    /\ call.base = 0
    /\ call.index = 1
    /\ ~ret.ok

(* C3: changing exactly one of the item, one proof entry or the root of an  *)
(* accepting call makes VerifyProof return false, as a plain boolean.       *)
C3_TamperRejected ==
    (call.op = "VerifyProof" /\ call.mut \in {"item", "proof", "root"}) =>
        /\ ret.ok = FALSE
        /\ ret.err = FALSE
        /\ \/ call.item # At(data, call.base)
           \/ call.proof # GetProofOp(tree, call.base).proof
           \/ call.rootHash # GetRootOp(tree)

C3_Witness ==
    /\ call.op = "VerifyProof"
    /\ call.mut = "proof"
    /\ Len(data) = 4
    /\ call.proof[2] # GetProofOp(tree, call.base).proof[2]
    /\ call.proof[1] = GetProofOp(tree, call.base).proof[1]
    /\ ~ret.ok

(* C4: a proof for a valid index of a tree of n items has exactly k         *)
(* entries, 2^k being the smallest power of two >= n; none for one item.    *)
C4_ProofLength ==
    (call.op = "GetProof" /\ ValidIndex(call.index)) =>
        /\ Len(ret.proof) = Log2(SmallestPowerOfTwoGeq(Len(data)))
        /\ Len(data) = 1 => ret.proof = <<>>

C4_Witness ==
    /\ call.op = "GetProof"
    /\ Len(data) = 3
    /\ call.index = 2
    /\ Len(ret.proof) = 2

(* C5: GetProof fails, with a nil proof, exactly when index < 0 or          *)
(* index >= LeafCount (the unpadded count); padding slots are rejected.     *)
C5_ProofIndexRange ==
    call.op = "GetProof" =>
        /\ ret.err <=> (call.index < 0 \/ call.index >= Len(data))
        /\ ret.err => (ret.isNil /\ ret.proof = <<>>)
        /\ tree.LeafCount = Len(data)

C5_Witness ==
    /\ call.op = "GetProof"
    /\ Len(data) = 3
    /\ call.index = 3
    /\ call.index < tree.LeafOffset + 1
    /\ ret.err
    /\ ret.isNil

(* C6: NewTree fails, returning no tree, exactly when the input is empty;   *)
(* otherwise it returns a tree whose root is a non-empty digest.            *)
C6_NewTreeError ==
    /\ pc # "start" => (pc = "failed" <=> Len(data) = 0)
    /\ pc = "failed" => tree = NoTree
    /\ call.op = "NewTree" => (ret.err <=> Len(data) = 0) /\ (ret.isNil <=> ret.err)
    /\ Built => (GetRootOp(tree) # <<>> /\ ByteLen(GetRootOp(tree)) = 2 * Size)
    /\ call.op = "GetRoot" => (ret.root # <<>> /\ ByteLen(ret.root) = 2 * Size)

C6_Witness ==
    /\ call.op = "GetRoot"
    /\ Len(data) = 1
    /\ ret.root = hashData(data[1])

(* C7: layout and padding -- 2P-1 nodes, leaves from P-1, real leaves hold  *)
(* the item hashes, padding slots repeat the last real leaf, every internal *)
(* node hashes its two children, and the array equals that of the tree      *)
(* built from S extended with copies of its last item to length P.          *)
C7_Layout ==
    Built =>
        LET n == Len(data)
            P == SmallestPowerOfTwoGeq(n)
        IN  /\ Len(tree.Nodes) = 2 * P - 1
            /\ tree.LeafOffset = P - 1
            /\ tree.LeafCount = n
            /\ tree.LeafData = data
            /\ \A j \in 0..(n - 1) :
                   At(tree.Nodes, tree.LeafOffset + j) = hashData(At(data, j))
            /\ \A j \in n..(P - 1) :
                   At(tree.Nodes, tree.LeafOffset + j)
                       = At(tree.Nodes, tree.LeafOffset + n - 1)
            /\ \A i \in 0..(tree.LeafOffset - 1) :
                   At(tree.Nodes, i)
                       = hashNodes(At(tree.Nodes, 2 * i + 1), At(tree.Nodes, 2 * i + 2))
            /\ tree.Nodes = NewTreeOp(Extend(data, P)).tree.Nodes
            /\ GetRootOp(tree) = GetRootOp(NewTreeOp(Extend(data, P)).tree)

C7_Witness ==
    /\ Built
    /\ call.op = "NewTree"
    /\ Len(data) = 3
    /\ data[2] # data[3]
    /\ Len(tree.Nodes) = 7
    /\ At(tree.Nodes, 6) = At(tree.Nodes, 5)

OtherSeqs ==
    LET RECURSIVE Over(_)
        Over(n) == IF n = 0 THEN {<<>>}
                   ELSE {Append(s, x) : s \in Over(n - 1), x \in Strings}
    IN  UNION {Over(n) : n \in 1..MaxLen}

PaddedCount(S) == SmallestPowerOfTwoGeq(Len(S))

(* C8 as stated: any two distinct non-empty sequences have distinct roots.  *)
C8_AnyDistinctSequences ==
    call.op = "GetRoot" =>
        \A S2 \in OtherSeqs :
            S2 # data => GetRootOp(NewTreeOp(S2).tree) # ret.root

(* C8 amended: two non-empty sequences with the same padded leaf count P    *)
(* (in particular the same length) have distinct roots exactly when they    *)
(* differ once each is extended to length P with copies of its last item.   *)
C8_Sensitivity ==
    call.op = "GetRoot" =>
        \A S2 \in OtherSeqs :
            PaddedCount(S2) = PaddedCount(data) =>
                /\ (Extend(S2, PaddedCount(S2)) # Extend(data, PaddedCount(data)))
                       <=> (GetRootOp(NewTreeOp(S2).tree) # ret.root)
                /\ (Len(S2) = Len(data) /\ S2 # data)
                       => GetRootOp(NewTreeOp(S2).tree) # ret.root

C8_Witness ==
    /\ call.op = "GetRoot"
    /\ Len(data) = 3
    /\ \E S2 \in OtherSeqs :
          /\ Len(S2) = 3
          /\ S2[1] = data[2] /\ S2[2] = data[1] /\ S2[3] = data[3]
          /\ S2 # data
          /\ GetRootOp(NewTreeOp(S2).tree) # ret.root

Expected(c, t) ==
    CASE c.op = "GetRoot" -> [NoRet EXCEPT !.root = GetRootOp(t)]
      [] c.op = "GetProof" ->
            LET res == GetProofOp(t, c.index)
            IN  [NoRet EXCEPT !.proof = res.proof, !.isNil = res.isNil, !.err = res.err]
      [] c.op = "VerifyProof" ->
            [NoRet EXCEPT !.hash = VerifyHash(c.item, c.proof, c.index),
                          !.ok = VerifyProofOp(c.item, c.proof, c.rootHash, c.index)]
      [] c.op = "PrintTree" -> [NoRet EXCEPT !.out = PrintOp(t)]
      [] OTHER -> ret

MaxBit(bits) == CHOOSE x \in bits : \A y \in bits : y <= x

AtMostTwoTo62(bits) == bits = {IntBits - 2} \/ \A b \in bits : b < IntBits - 2

SmallestPowerOfTwoBits(bits) ==
    IF Cardinality(bits) = 1 THEN bits ELSE {MaxBit(bits) + 1}

(* C11: nextPowerOfTwo(n) is 1 for every n <= 0 and, for 1 <= n <= 2^62,    *)
(* the smallest power of two >= n (n itself when n is a power of two).      *)
C11_NextPowerOfTwo ==
    pc = "powdone" =>
        /\ IsNonPositive(call.n) => ret.p = {0}
        /\ (~IsNonPositive(call.n) /\ AtMostTwoTo62(call.n)) =>
               ret.p = SmallestPowerOfTwoBits(call.n)

(* C12: membership soundness -- whenever VerifyProof accepts an item, with  *)
(* any proof and any index, against the root of the tree built from S, the  *)
(* item is one of the items of S.                                           *)
C12_MembershipSound ==
    (call.op = "VerifyProof" /\ call.rootHash = GetRootOp(tree) /\ ret.ok) =>
        \E k \in 1..Len(data) : data[k] = call.item

====
